---------------------------- MODULE Spec2Model ----------------------------
(***************************************************************************)
(* The image-search server (src/server.py) and the calls the Streamlit UI  *)
(* (src/streamlit_app.py) makes to it.                                      *)
(*                                                                         *)
(* State: the dataset directories on disk, the position of the module's    *)
(* top-level code (opening the datasets, then server.run()), the dataset   *)
(* registry `datasets`, and the last call served with what it returned or  *)
(* raised.                                                                 *)
(*                                                                         *)
(* usearch, uform and ucall are libraries outside the repository.  What    *)
(* the model takes from them is stated where it is used: Index.search is   *)
(* an exact nearest-first top-k under the cosine metric, load_matrix and   *)
(* open() do not produce a value for an absent file, and Index(path=...)   *)
(* on an absent file or on a file of another dimensionality either raises  *)
(* or returns an index (both outcomes are kept, server.py checks neither). *)
(***************************************************************************)
EXTENDS Integers, Sequences, FiniteSets, TLC

VARIABLES files, pc, opened, datasets, reply

vars == <<files, pc, opened, datasets, reply>>

(* ------------------------------ bounds -------------------------------- *)

\* Largest number of rows a dataset is built from.
MaxRows == 2

\* Dimensionality of the embeddings the model produces and the datasets are
\* built with.
NDim == 2

\* Largest result count a call asks for: one more than the largest index.
MaxCount == MaxRows + 1

Counts == 0..MaxCount

(* --------------------------- dataset files ---------------------------- *)

\* server.py:40, the fixed dataset names, in the order they are opened.
DatasetNames == <<"unsplash25k", "cc3m">>

RegisteredNames == {DatasetNames[i] : i \in 1..Len(DatasetNames)}

\* streamlit_app.py:171-177, the names the sidebar selectbox offers.
UIDatasetOptions == {"unsplash-25k", "cc-3m"}

\* The dataset names a call may carry.
CallNames == RegisteredNames \cup UIDatasetOptions

\* The vector of label i (0-based) in a dataset of dimensionality d.
Row(i, d) == [j \in 1..d |-> IF j = 1 THEN i + 1 ELSE 1]

\* images.fbin holding r rows of d columns.
Matrix(r, d) == [absent |-> FALSE, shape |-> <<r, d>>,
                 rows |-> [i \in 1..r |-> Row(i - 1, d)]]

\* images.usearch built from the first n rows, with dimensionality d.
IndexFile(n, d) == [absent |-> FALSE, ndim |-> d,
                    vectors |-> [i \in 1..n |-> Row(i - 1, d)]]

\* The URI of line i (0-based) of images.txt.
Uri(i) == "https://img/" \o ToString(i)

\* images.txt holding u lines.
UriFile(u) == [absent |-> FALSE, lines |-> [i \in 1..u |-> Uri(i - 1)]]

NoMatrix == [absent |-> TRUE, shape |-> <<0, 0>>, rows |-> <<>>]
NoIndexFile == [absent |-> TRUE, ndim |-> 0, vectors |-> <<>>]
NoUriFile == [absent |-> TRUE, lines |-> <<>>]

\* What can be wrong with a dataset directory: nothing, a file that is absent,
\* a URI list or an index that disagrees with the vector file.
Defects == {"none", "no_fbin", "no_usearch", "no_txt",
            "txt_short", "txt_long", "usearch_short", "usearch_ndim"}

\* A directory built from r vectors of NDim columns, with one defect.
Directory(r, defect) ==
  [fbin |-> IF defect = "no_fbin" THEN NoMatrix ELSE Matrix(r, NDim),
   usearch |-> CASE defect = "no_usearch" -> NoIndexFile
                 [] defect = "usearch_ndim" -> IndexFile(r, NDim + 1)
                 [] defect = "usearch_short" -> IndexFile(r - 1, NDim)
                 [] OTHER -> IndexFile(r, NDim),
   txt |-> CASE defect = "no_txt" -> NoUriFile
             [] defect = "txt_short" -> UriFile(r - 1)
             [] defect = "txt_long" -> UriFile(r + 1)
             [] OTHER -> UriFile(r)]

Directories == {Directory(r, d) : r \in 1..MaxRows, d \in Defects}


(* ----------------------------- startup -------------------------------- *)

\* server.py:23, load_matrix(path, view=True): the matrix of the file; it gives
\* no matrix for an absent file.
load_matrix(f) == [ok |-> ~f.absent, shape |-> f.shape, rows |-> f.rows]

\* server.py:25-29, Index(ndim, metric=Cos, path): the index the file holds.
\* server.py tests neither that the file exists nor that it has ndim
\* dimensions, so for an absent file the outcomes are the library's: it raises,
\* or it returns an empty index of ndim dimensions; for a file of another
\* dimensionality it raises, or it returns the index as the file holds it.
Index(ndim, f) ==
  IF f.absent
  THEN {[ok |-> FALSE, ndim |-> 0, vectors |-> <<>>],
        [ok |-> TRUE, ndim |-> ndim, vectors |-> <<>>]}
  ELSE IF f.ndim # ndim
  THEN {[ok |-> FALSE, ndim |-> 0, vectors |-> <<>>],
        [ok |-> TRUE, ndim |-> f.ndim, vectors |-> f.vectors]}
  ELSE {[ok |-> TRUE, ndim |-> f.ndim, vectors |-> f.vectors]}

\* server.py:30, open(path).read().splitlines(): the lines of the file; open
\* raises FileNotFoundError for an absent file.
read_lines(f) == [ok |-> ~f.absent, lines |-> f.lines]

\* server.py:15-19, the Dataset dataclass.
Dataset(index, uris, vectors) ==
  [index |-> [ndim |-> index.ndim, vectors |-> index.vectors],
   uris |-> uris,
   vectors |-> [shape |-> vectors.shape, rows |-> vectors.rows]]

NoDataset == Dataset([ndim |-> 0, vectors |-> <<>>], <<>>,
                     [shape |-> <<0, 0>>, rows |-> <<>>])

\* server.py:22-36, open_dataset(dir): the outcomes of opening a directory,
\* each a raise (ok = FALSE) or the Dataset returned.
open_dataset(dir) ==
  LET vectors == load_matrix(dir.fbin)
      uris == read_lines(dir.txt)
  IN IF ~vectors.ok
     THEN {[ok |-> FALSE, error |-> "LoadMatrixError", dataset |-> NoDataset]}
     ELSE {IF ~index.ok
           THEN [ok |-> FALSE, error |-> "IndexLoadError", dataset |-> NoDataset]
           ELSE IF ~uris.ok
           THEN [ok |-> FALSE, error |-> "FileNotFoundError", dataset |-> NoDataset]
           ELSE [ok |-> TRUE, error |-> "",
                 dataset |-> Dataset(index, uris.lines, vectors)]
           : index \in Index(vectors.shape[2], dir.usearch)}

\* No call served yet.
NoReply == [caller |-> "", op |-> "", dataset |-> "", query |-> "", count |-> 0,
            status |-> "none", error |-> "", uris |-> <<>>, number |-> 0]

\* The dataset directories are whatever is on disk when the process starts.
Init ==
  /\ files \in [RegisteredNames -> Directories]
  /\ pc = "startup"
  /\ opened = 0
  /\ datasets = [n \in {} |-> NoDataset]
  /\ reply = NoReply

\* server.py:40, one step of the dict comprehension: open_dataset(name) for the
\* next name; a raise ends the process before `datasets` is bound.
OpenDataset ==
  /\ pc = "startup"
  /\ opened < Len(DatasetNames)
  /\ LET name == DatasetNames[opened + 1] IN
     \E out \in open_dataset(files[name]) :
       IF out.ok
       THEN /\ datasets' = [n \in DOMAIN datasets \cup {name} |->
                              IF n = name THEN out.dataset ELSE datasets[n]]
            /\ opened' = opened + 1
            /\ pc' = pc
       ELSE /\ pc' = "crashed"
            /\ UNCHANGED <<datasets, opened>>
  /\ UNCHANGED <<files, reply>>

\* server.py:41-87, the comprehension is complete: the endpoints are registered
\* and server.run() starts serving.
ServerRun ==
  /\ pc = "startup"
  /\ opened = Len(DatasetNames)
  /\ pc' = "serving"
  /\ UNCHANGED <<files, opened, datasets, reply>>

(* ------------------------- the similarity index ----------------------- *)

Dot(a, b) ==
  LET s[i \in 0..Len(a)] == IF i = 0 THEN 0 ELSE s[i - 1] + a[i] * b[i]
  IN s[Len(a)]

\* x * |x|: keeps the order of x, and of the cosines compared below.
SignedSquare(x) == IF x >= 0 THEN x * x ELSE -(x * x)

\* server.py:27, MetricKind.Cos: a is more similar to q than b is, that is
\* cos(a, q) > cos(b, q), compared without the square roots.
MoreSimilar(a, b, q) ==
  SignedSquare(Dot(a, q)) * Dot(b, b) > SignedSquare(Dot(b, q)) * Dot(a, a)

\* Label a comes before label b in the index's answer to q: nearer first, the
\* smaller label first among equally near ones.
Before(index, q, a, b) ==
  LET va == index.vectors[a + 1]
      vb == index.vectors[b + 1]
  IN \/ MoreSimilar(va, vb, q)
     \/ ~MoreSimilar(vb, va, q) /\ a < b

\* The labels of the index (label i is the i-th vector added, from 0).
Labels(index) == 0..(Len(index.vectors) - 1)

\* server.py:48-49, index.search(vector, count) and matches.labels.flatten():
\* the labels of the (at most count) nearest vectors, nearest first; a query of
\* another dimensionality than the index is refused.
search(index, vector, count) ==
  LET n == Len(index.vectors)
      ranked == [i \in 1..n |->
                   CHOOSE l \in Labels(index) :
                     Cardinality({m \in Labels(index) :
                                    Before(index, vector, m, l)}) = i - 1]
  IN IF Len(vector) # index.ndim
     THEN [ok |-> FALSE, labels |-> <<>>]
     ELSE [ok |-> TRUE,
           labels |-> SubSeq(ranked, 1, IF count < n THEN count ELSE n)]

(* ----------------------------- endpoints ------------------------------ *)

\* What a call gives: a value returned ("returned") or an exception
\* ("raised"), and the registry as the call leaves it.
Returned(uris, number, registry) ==
  [status |-> "returned", error |-> "", uris |-> uris, number |-> number,
   registry |-> registry]

Raised(error, registry) ==
  [status |-> "raised", error |-> error, uris |-> <<>>, number |-> 0,
   registry |-> registry]

\* A find_vector that answers an unknown dataset name with an empty list.
find_vector_no_assert(registry, dataset_name, vector, count) ==
  IF dataset_name \notin DOMAIN registry
  THEN Returned(<<>>, 0, registry)
  ELSE LET dataset == registry[dataset_name]
           matches == search(dataset.index, vector, count)
       IN IF ~matches.ok THEN Raised("DimensionError", registry)
          ELSE IF \E i \in 1..Len(matches.labels) :
                    matches.labels[i] >= Len(dataset.uris)
          THEN Raised("IndexError", registry)
          ELSE Returned([i \in 1..Len(matches.labels) |->
                           dataset.uris[matches.labels[i] + 1]], 0, registry)

\* A find_vector that leaves out the labels uris has no position for.
find_vector_drop(registry, dataset_name, vector, count) ==
  IF dataset_name \notin DOMAIN registry
  THEN Raised("AssertionError", registry)
  ELSE LET dataset == registry[dataset_name]
           matches == search(dataset.index, vector, count)
           mapped == SelectSeq(matches.labels,
                               LAMBDA l : l < Len(dataset.uris))
       IN IF ~matches.ok THEN Raised("DimensionError", registry)
          ELSE Returned([i \in 1..Len(mapped) |-> dataset.uris[mapped[i] + 1]],
                        0, registry)

\* A find_vector that takes each URI out of the dataset's list as it returns
\* it (uris.pop(id) for uris[id]).
find_vector_pop(registry, dataset_name, vector, count) ==
  IF dataset_name \notin DOMAIN registry
  THEN Raised("AssertionError", registry)
  ELSE LET dataset == registry[dataset_name]
           matches == search(dataset.index, vector, count)
           taken == {matches.labels[i] : i \in 1..Len(matches.labels)}
           kept == SelectSeq([i \in 1..Len(dataset.uris) |-> i - 1],
                             LAMBDA l : l \notin taken)
       IN IF ~matches.ok THEN Raised("DimensionError", registry)
          ELSE IF \E i \in 1..Len(matches.labels) :
                    matches.labels[i] >= Len(dataset.uris)
          THEN Raised("IndexError", registry)
          ELSE Returned([i \in 1..Len(matches.labels) |->
                           dataset.uris[matches.labels[i] + 1]], 0,
                        [registry EXCEPT ![dataset_name].uris =
                           [i \in 1..Len(kept) |-> dataset.uris[kept[i] + 1]]])

\* A find_vector that returns the URIs farthest first.
find_vector_reversed(registry, dataset_name, vector, count) ==
  IF dataset_name \notin DOMAIN registry
  THEN Raised("AssertionError", registry)
  ELSE LET dataset == registry[dataset_name]
           matches == search(dataset.index, vector, count)
           n == Len(matches.labels)
       IN IF ~matches.ok THEN Raised("DimensionError", registry)
          ELSE IF \E i \in 1..n : matches.labels[i] >= Len(dataset.uris)
          THEN Raised("IndexError", registry)
          ELSE Returned([i \in 1..n |->
                           dataset.uris[matches.labels[n + 1 - i] + 1]],
                        0, registry)

\* server.py:44-50, find_vector(dataset_name, vector, count): the assert on the
\* name, the search, then uris[id] for each label in the order returned; a
\* label past the end of uris raises IndexError out of the comprehension.
find_vector(registry, dataset_name, vector, count) ==
  IF dataset_name \notin DOMAIN registry
  THEN Raised("AssertionError", registry)
  ELSE LET dataset == registry[dataset_name]
           matches == search(dataset.index, vector, count)
       IN IF ~matches.ok THEN Raised("DimensionError", registry)
          ELSE IF \E i \in 1..Len(matches.labels) :
                    matches.labels[i] >= Len(dataset.uris)
          THEN Raised("IndexError", registry)
          ELSE Returned([i \in 1..Len(matches.labels) |->
                           dataset.uris[matches.labels[i] + 1]], 0, registry)

\* The queries a call may carry: two that encode, one that does not.
Queries == {"q1", "q2", "bad"}

\* server.py:56, 62-63, 70-71: _ascii_to_vector(query), model.encode_text and
\* model.encode_image fail on a query they cannot encode, and give an
\* embedding of NDim numbers otherwise.
Encodes(query) == query # "bad"

Embedding(query) ==
  [j \in 1..NDim |-> IF (query = "q1" /\ j = 1) \/ (query = "q2" /\ j = 2)
                     THEN 1 ELSE 0]

\* server.py:53-72, find_with_vector, find_with_text, find_with_image: the
\* query is encoded first, then find_vector is called.
find_with(registry, dataset, query, count) ==
  IF ~Encodes(query) THEN Raised("EncodingError", registry)
  ELSE find_vector(registry, dataset, Embedding(query), count)

\* server.py:75-78, size(dataset): len(datasets[dataset].index).
size(registry, dataset) ==
  IF dataset \notin DOMAIN registry THEN Raised("KeyError", registry)
  ELSE Returned(<<>>, Len(registry[dataset].index.vectors), registry)

\* server.py:81-84, dimensions(dataset): datasets[dataset].index.ndim.
dimensions(registry, dataset) ==
  IF dataset \notin DOMAIN registry THEN Raised("KeyError", registry)
  ELSE Returned(<<>>, registry[dataset].index.ndim, registry)

\* The record of a call served: who called, what was asked, what came back.
Reply(caller, op, dataset, query, count, result) ==
  [caller |-> caller, op |-> op, dataset |-> dataset, query |-> query,
   count |-> count, status |-> result.status, error |-> result.error,
   uris |-> result.uris, number |-> result.number]

\* server.py:87, server.run() takes a call when it is not answering another:
\* the handler runs to its end, the reply is recorded and the registry is
\* what the handler left.
Serve(caller, op, dataset, query, count, result) ==
  /\ pc = "serving"
  /\ reply = NoReply
  /\ reply' = Reply(caller, op, dataset, query, count, result)
  /\ datasets' = result.registry
  /\ UNCHANGED <<files, pc, opened>>

\* server.py:87, the reply goes back to the caller and the server is free for
\* the next call.
Respond ==
  /\ pc = "serving"
  /\ reply # NoReply
  /\ reply' = NoReply
  /\ UNCHANGED <<files, pc, opened, datasets>>

FindOps == {"find_with_vector", "find_with_text", "find_with_image"}

\* server.py:53-56.
FindWithVector ==
  \E dataset \in CallNames, query \in Queries, count \in Counts :
    Serve("rpc", "find_with_vector", dataset, query, count,
          find_with(datasets, dataset, query, count))

\* server.py:59-64.
FindWithText ==
  \E dataset \in CallNames, query \in Queries, count \in Counts :
    Serve("rpc", "find_with_text", dataset, query, count,
          find_with(datasets, dataset, query, count))

\* server.py:67-72.
FindWithImage ==
  \E dataset \in CallNames, query \in Queries, count \in Counts :
    Serve("rpc", "find_with_image", dataset, query, count,
          find_with(datasets, dataset, query, count))

\* server.py:75-78.
Size ==
  \E dataset \in CallNames :
    Serve("rpc", "size", dataset, "", 0, size(datasets, dataset))

\* server.py:81-84.
Dimensions ==
  \E dataset \in CallNames :
    Serve("rpc", "dimensions", dataset, "", 0, dimensions(datasets, dataset))

(* ------------------------------ the UI -------------------------------- *)

\* server.py:44, 54, 60, 68, 76, 82: the parameters of each function.
Parameters(op) ==
  CASE op = "find_vector" -> {"dataset_name", "vector", "count"}
    [] op \in FindOps -> {"dataset", "query", "count"}
    [] OTHER -> {"dataset"}

\* server.py:44, `count: int = 10` is the one parameter with a default.
Required(op) == IF op = "find_vector" THEN {"dataset_name", "vector"}
                ELSE Parameters(op)

\* server.py:53, 59, 67, 75, 81: the functions decorated with @server, which
\* are the ones a remote client can call.
Registered == FindOps \cup {"size", "dimensions"}

\* streamlit_app.py:97-106, get_backend: a ucall Client when SERVER_IP is set,
\* the imported server module otherwise.
Backends == {"client", "module"}

\* What calling op with the keyword arguments kwargs on the backend gives
\* before the function's body runs: "" when the call is accepted, the error
\* otherwise.  The module binds as Python does, TypeError for a keyword the
\* function has not or a required one missing.  The client reaches only the
\* registered functions; what the transport does with a keyword the function
\* has not is the library's, so both outcomes are kept.
Bind(backend, op, kwargs) ==
  IF backend = "module"
  THEN IF kwargs \subseteq Parameters(op) /\ Required(op) \subseteq kwargs
       THEN {""} ELSE {"TypeError"}
  ELSE IF op \notin Registered \/ ~(Required(op) \subseteq kwargs)
       THEN {"RpcError"}
       ELSE IF kwargs \subseteq Parameters(op) THEN {""} ELSE {"", "RpcError"}

\* streamlit_app.py:184-211, the call each branch of the search dispatch makes.
UICall(branch) ==
  CASE branch = "image" ->
         [op |-> "find_with_image", kwargs |-> {"dataset", "query", "count"}]
    [] branch = "vector" ->
         [op |-> "find_vector", kwargs |-> {"dataset", "vector", "count"}]
    [] OTHER ->
         [op |-> "find_with_text",
          kwargs |-> {"dataset", "query", "count", "rerank"}]

UIBranches == {"image", "vector", "text"}

\* streamlit_app.py:181, backend.size(dataset_name) with the name selected in
\* the sidebar; an exception ends the script run there.
UISize ==
  \E dataset \in UIDatasetOptions :
    Serve("ui", "size", dataset, "", 0, size(datasets, dataset))

\* streamlit_app.py:184-211, the search dispatch: the call of the branch taken,
\* with max_results = max_rows * columns (both sliders start at 1).
UISearch ==
  \E backend \in Backends, branch \in UIBranches, dataset \in UIDatasetOptions,
     query \in Queries \ {"bad"}, count \in Counts \ {0} :
    LET call == UICall(branch) IN
    \E error \in Bind(backend, call.op, call.kwargs) :
      Serve("ui", call.op, dataset, query, count,
            IF error # "" THEN Raised(error, datasets)
            ELSE find_with(datasets, dataset, query, count))

Next ==
  \/ OpenDataset
  \/ ServerRun
  \/ FindWithVector
  \/ FindWithText
  \/ FindWithImage
  \/ Size
  \/ Dimensions
  \/ UISize
  \/ Respond

Spec == Init /\ [][Next]_vars

\* The search dispatch of the UI taken by itself, for every state of its
\* widgets: in a run of the whole script it comes after the size call.
NextDispatch == Next \/ UISearch

SpecDispatch == Init /\ [][NextDispatch]_vars

(* ------------------------------ claims -------------------------------- *)

\* The failures that say the dataset name is not in the registry:
\* find_vector's assert (server.py:46) and the lookup datasets[dataset] in size
\* and dimensions (server.py:78, 84).
UnknownDatasetError == {"AssertionError", "KeyError"}

Answered == reply.status # "none"

\* The last call was a search of a registered dataset whose query encoded to
\* an embedding of the index's dimensionality.
Searched ==
  /\ Answered
  /\ reply.op \in FindOps
  /\ reply.dataset \in DOMAIN datasets
  /\ Encodes(reply.query)
  /\ Len(Embedding(reply.query)) = datasets[reply.dataset].index.ndim

\* The labels the index returned to the last call.
SearchedLabels ==
  search(datasets[reply.dataset].index, Embedding(reply.query),
         reply.count).labels

\* C1 as stated: a call naming a dataset that is not in the registry fails
\* with UnknownDatasetError and returns nothing.
C1_UnknownDatasetError ==
  (Answered /\ reply.dataset \notin DOMAIN datasets) =>
    /\ reply.status = "raised"
    /\ reply.error \in UnknownDatasetError
    /\ reply.uris = <<>> /\ reply.number = 0

\* C1 amended: a call naming a dataset that is not in the registry fails and
\* returns nothing; the failure is the unknown-dataset one, except that a
\* find_with_* call whose query does not encode fails with the encoder's
\* error, the query being encoded before the name is looked up.
C1_UnknownDatasetFails ==
  (Answered /\ reply.dataset \notin DOMAIN datasets) =>
    /\ reply.status = "raised"
    /\ reply.uris = <<>> /\ reply.number = 0
    /\ IF reply.op \in FindOps /\ ~Encodes(reply.query)
       THEN reply.error = "EncodingError"
       ELSE reply.error \in UnknownDatasetError

\* A search of an unknown dataset whose query did not encode has been served.
C1_Witness ==
  /\ Answered
  /\ reply.dataset \notin DOMAIN datasets
  /\ reply.op \in FindOps
  /\ ~Encodes(reply.query)
  /\ reply.error = "EncodingError"

\* C2 as stated: a search of a registered dataset returns exactly count URIs
\* when count <= size, exactly size URIs when count > size, and never fails.
C2_ResultLength ==
  Searched =>
    LET n == size(datasets, reply.dataset).number
    IN /\ reply.status = "returned"
       /\ Len(reply.uris) = IF reply.count <= n THEN reply.count ELSE n

UnmappedLabel ==
  \E i \in 1..Len(SearchedLabels) :
    SearchedLabels[i] >= Len(datasets[reply.dataset].uris)

FilesPresent(name) ==
  /\ ~files[name].fbin.absent
  /\ ~files[name].usearch.absent
  /\ ~files[name].txt.absent

\* C4 as stated, and only for the datasets opened from a directory that has
\* its three files: while the server serves, size(D) equals len(D.uris) and
\* the number of rows of D.vectors.
C4_SizeIsUrisIsRows ==
  pc = "serving" =>
    \A name \in DOMAIN datasets :
      FilesPresent(name) =>
        /\ size(datasets, name).number = Len(datasets[name].uris)
        /\ size(datasets, name).number = datasets[name].vectors.shape[1]

\* C5 as stated: the server serves only with every dataset opened, and never
\* when a vector file, an index file or a URI list is missing.
C5_MissingFileIsFatal ==
  pc = "serving" =>
    /\ DOMAIN datasets = RegisteredNames
    /\ \A name \in RegisteredNames : FilesPresent(name)

C7_NearestFirst ==
  (Searched /\ reply.status = "returned") =>
    LET dataset == datasets[reply.dataset]
        labels == SearchedLabels
        q == Embedding(reply.query)
    IN /\ reply.uris = [i \in 1..Len(labels) |-> dataset.uris[labels[i] + 1]]
       /\ \A i, j \in 1..Len(labels) :
            i < j => ~MoreSimilar(dataset.index.vectors[labels[j] + 1],
                                  dataset.index.vectors[labels[i] + 1], q)

\* A search returned two URIs or more whose labels are not in label order.
C7_Witness ==
  /\ Searched
  /\ reply.status = "returned"
  /\ Len(reply.uris) >= 2
  /\ SearchedLabels[1] > SearchedLabels[2]
  /\ MoreSimilar(datasets[reply.dataset].index.vectors[SearchedLabels[1] + 1],
                 datasets[reply.dataset].index.vectors[SearchedLabels[2] + 1],
                 Embedding(reply.query))

\* C8 as stated: open_dataset never returns a Dataset whose index has another
\* dimensionality than the vector file has columns.
C8_IndexDimIsColumns ==
  \A name \in DOMAIN datasets :
    datasets[name].index.ndim = datasets[name].vectors.shape[2]

\* C9 as stated: no call the UI makes with a dataset name of its sidebar
\* fails on an unknown dataset name.
C9_UINamesRegistered ==
  reply.caller = "ui" =>
    ~(reply.status = "raised" /\ reply.error \in UnknownDatasetError)

\* C10 as stated: no search call of the UI fails on an operation the backend
\* has not or on a keyword argument the operation does not take.
C10_UICallsBind ==
  (reply.caller = "ui" /\ reply.op # "size") =>
    reply.error \notin {"TypeError", "RpcError"}

=============================================================================
